---- MODULE Spec2Model ----
(***************************************************************************)
(* Model of heat/api/cfn/v1/stacks.py: the StackController of the Heat     *)
(* CloudFormation-compatible API.  One request is handled at a time by one *)
(* handler; the policy enforcer, the template fetcher and the engine RPC   *)
(* client are collaborators whose answers are nondeterministic inputs.     *)
(*                                                                         *)
(* Strings that the code inspects structurally (stack names, ARNs, URLs)   *)
(* are represented split on ':' and then on '/':                           *)
(*   "mystack"  is  << <<"mystack">> >>,   ""  is  << <<"">> >>,           *)
(*   "arn:openstack:heat::t1:stacks/s1/id1"  is                            *)
(*   << <<"arn">>, <<"openstack">>, <<"heat">>, <<"">>, <<"t1">>,          *)
(*      <<"stacks", "s1", "id1">> >>.                                      *)
(* Python's None, for a string-valued optional, is the empty tuple.        *)
(***************************************************************************)
EXTENDS Integers, Sequences, FiniteSets, TLC

VARIABLES req, authz, fetched, calls, outcome

vars == <<req, authz, fetched, calls, outcome>>

(* ------------------------------------------------------------------ *)
(* Strings, None, request parameters                                   *)
(* ------------------------------------------------------------------ *)

\* None, as returned by req.params.get(k) for a missing key.
None == <<>>

\* A string without ':' or '/'.
S(a) == << <<a>> >>

\* Python truthiness of an optional string: None and '' are false.
Truthy(s) == s /= None /\ s /= S("")

\* `k in params`
Has(params, k) == params[k] /= None

ParamKeys ==
    {"StackName", "PhysicalResourceId", "LogicalResourceId", "TemplateBody",
     "TemplateUrl", "DisableRollback", "OnFailure", "TimeoutInMinutes",
     "Parameters"}

NoParams == [k \in ParamKeys |-> None]

(* ------------------------------------------------------------------ *)
(* Exceptions and faults                                               *)
(* ------------------------------------------------------------------ *)

\* Python 2 class hierarchy of the exceptions the handlers name:
\* socket.gaierror < socket.error < IOError < Exception.
IsInstance(exc, cls) ==
    \/ exc = cls
    \/ cls = "Exception"
    \/ (exc = "gaierror" /\ cls = "IOError")

\* The fault kind carried by each heat.api.aws.exception class used here.
FaultKind(cls) ==
    CASE cls = "HeatAccessDeniedError" -> "AccessDenied"
      [] cls = "HeatInternalFailureError" -> "InternalFailure"
      [] cls = "HeatInvalidParameterCombinationError" -> "InvalidParameterCombination"
      [] cls = "HeatInvalidParameterValueError" -> "InvalidParameterValue"
      [] cls = "HeatMissingParameterError" -> "MissingParameter"
      [] OTHER -> "none"

NoBody == [empty |-> TRUE]

\* A fault: `via` tells whether the handler raised or returned it.
Fault(cls, via) ==
    [type |-> "fault", kind |-> FaultKind(cls), via |-> via, body |-> NoBody]

\* api_utils.format_response(action, body)
format_response(action, body) ==
    [type |-> "response", kind |-> action, via |-> "return", body |-> body]

\* An exception that is no API fault and leaves the handler uncaught.
Unhandled(exc) ==
    [type |-> "exception", kind |-> exc, via |-> "raise", body |-> NoBody]

\* A raised exception leaving the handler: a fault when it is an API fault class.
Raised(exc) ==
    IF FaultKind(exc) /= "none" THEN Fault(exc, "raise") ELSE Unhandled(exc)

Idle == [type |-> "idle", kind |-> "none", via |-> "none", body |-> NoBody]

\* The result of running a handler: the fetch it made, the engine calls it
\* made, in order, and how it ended.
Run(f, cs, out) == [fetched |-> f, calls |-> cs, outcome |-> out]

NoFetch == [attempted |-> FALSE, exc |-> "none", val |-> None]

\* One engine invocation: operation, arguments, and the engine's answer.
Call(op, args, ans) == [op |-> op, args |-> args, ret |-> ans]

Ok(v) == [exc |-> "none", val |-> v]
Err(e) == [exc |-> e, val |-> None]

(* ------------------------------------------------------------------ *)
(* Policy                                                              *)
(* ------------------------------------------------------------------ *)

\* What policy.enforce can do: pass, raise Forbidden, raise anything else.
PolicyAnswers == {"allow", "Forbidden", "RuntimeError"}

\* The exception _enforce raises, or "none".
_enforce_buggy(policy) ==
    IF policy = "Forbidden" THEN "HeatAccessDeniedError" ELSE "none"

_enforce(policy) ==
    IF policy = "allow" THEN "none"
    ELSE IF IsInstance(policy, "Forbidden") THEN "HeatAccessDeniedError"
    ELSE "HeatInternalFailureError"

(* ------------------------------------------------------------------ *)
(* Identifier codec (heat.common.identifier)                           *)
(* ------------------------------------------------------------------ *)

Identity(tenant, name, id, path) ==
    [tenant |-> tenant, stack_name |-> name, stack_id |-> id, path |-> path]

\* HeatIdentifier.arn(): the encoded token of an identifier.
arn(i) ==
    << <<"arn">>, <<"openstack">>, <<"heat">>, <<"">>, <<i.tenant>>,
       <<"stacks", i.stack_name, i.stack_id>> \o i.path >>

\* Whether a string matches the token scheme.
WellFormedArn(s) ==
    /\ Len(s) = 6
    /\ s[1] = <<"arn">> /\ s[2] = <<"openstack">> /\ s[3] = <<"heat">>
    /\ Len(s[5]) = 1
    /\ Len(s[6]) >= 3
    /\ s[6][1] = "stacks" /\ s[6][2] /= "" /\ s[6][3] /= ""

\* HeatIdentifier.from_arn(): the decoded identifier, or ValueError.
from_arn(s) ==
    IF WellFormedArn(s)
    THEN Ok(Identity(s[5][1], s[6][2], s[6][3], SubSeq(s[6], 4, Len(s[6]))))
    ELSE Err("ValueError")

(* ------------------------------------------------------------------ *)
(* Engine RPC client: answers and failure mapping                      *)
(* ------------------------------------------------------------------ *)

\* Classes of failure an engine operation can raise through the RPC layer.
EngineErrors == {"NotFound", "Invalid", "Timeout"}

\* exception.map_remote_error(ex): the fault kind inferred from the failure's
\* class; anything unclassified (a transport failure, a local KeyError) is an
\* internal failure.
map_remote_error(ex) ==
    [type |-> "fault",
     kind |-> CASE ex = "NotFound" -> "ResourceNotFound"
                [] ex = "Invalid" -> "InvalidParameterValue"
                [] ex = "Forbidden" -> "AccessDenied"
                [] OTHER -> "InternalFailure",
     via |-> "return", body |-> NoBody]

\* The result of a block of statements: the exception it raised (or "none"),
\* the value it produced, and the engine calls made while running it.
Step(exc, val, cs) == [exc |-> exc, val |-> val, calls |-> cs]

\* self.engine_rpcapi.<op>(con, **args), answered by `ans`.
EngineCall(op, args, ans) == Step(ans.exc, ans.val, <<Call(op, args, ans)>>)

Seq2_keeps_going(first, second) ==
    Step(second.exc, second.val, first.calls \o second.calls)

\* Statement `first` followed by statement `second` inside one try block: when
\* the first raises the second is not run.
Seq2(first, second) ==
    IF first.exc /= "none" THEN first
    ELSE Step(second.exc, second.val, first.calls \o second.calls)

\* Identifiers the engine can answer with.
EngineIdentities ==
    {Identity("t1", "s1", "id1", <<>>), Identity("t1", "s2", "id2", <<>>)}

\* Answers of identify_stack and find_physical_resource.
ResolveAnswers ==
    {Ok(i) : i \in EngineIdentities} \cup {Err(e) : e \in EngineErrors}

(* ------------------------------------------------------------------ *)
(* _get_identity                                                       *)
(* ------------------------------------------------------------------ *)

_get_identity_always_rpc(stack_name, ans) ==
    EngineCall("identify_stack", [stack_name |-> stack_name], ans)

_get_identity_no_fallback(stack_name, ans) ==
    LET d == from_arn(stack_name)
    IN  Step(d.exc, d.val, <<>>)

\* try: return dict(HeatIdentifier.from_arn(stack_name))
\* except ValueError: return self.engine_rpcapi.identify_stack(con, stack_name)
_get_identity(stack_name, ans) ==
    LET d == from_arn(stack_name)
    IN  IF d.exc = "none" THEN Step("none", d.val, <<>>)
        ELSE IF IsInstance(d.exc, "ValueError")
        THEN EngineCall("identify_stack", [stack_name |-> stack_name], ans)
        ELSE Step(d.exc, None, <<>>)

(* ------------------------------------------------------------------ *)
(* Template acquisition                                                *)
(* ------------------------------------------------------------------ *)

\* Template texts: one that parses and one that does not.
GoodTemplate == S("{}")
BadTemplate == S("not a document")

\* What urlfetch.get(url) can do: return the bytes, or raise an IOError, of
\* which socket.gaierror (name resolution failure) is a subclass.
FetchAnswers ==
    {Ok(GoodTemplate), Ok(BadTemplate), Err("IOError"), Err("gaierror")}

\* template_format.parse(templ): the document, or ValueError.
parse(templ) ==
    IF templ = GoodTemplate THEN Ok([template |-> templ]) ELSE Err("ValueError")

Fetched(ans) == [attempted |-> TRUE, exc |-> ans.exc, val |-> ans.val]

_get_template_raw_ioerror(params, fetch) ==
    IF Has(params, "TemplateBody")
    THEN [exc |-> "none", val |-> params["TemplateBody"], fetched |-> NoFetch]
    ELSE IF Has(params, "TemplateUrl")
    THEN [exc |-> fetch.exc, val |-> fetch.val, fetched |-> Fetched(fetch)]
    ELSE [exc |-> "none", val |-> None, fetched |-> NoFetch]

_get_template_default_body(params, fetch) ==
    IF Has(params, "TemplateBody")
    THEN [exc |-> "none", val |-> params["TemplateBody"], fetched |-> NoFetch]
    ELSE IF Has(params, "TemplateUrl")
    THEN IF fetch.exc = "none"
         THEN [exc |-> "none", val |-> fetch.val, fetched |-> Fetched(fetch)]
         ELSE [exc |-> "HeatInvalidParameterValueError", val |-> None,
               fetched |-> Fetched(fetch)]
    ELSE [exc |-> "none", val |-> GoodTemplate, fetched |-> NoFetch]

\* _get_template(req): the template text, None when neither source is given;
\* an IOError of the fetch is raised as HeatInvalidParameterValueError.
_get_template(params, fetch) ==
    IF Has(params, "TemplateBody")
    THEN [exc |-> "none", val |-> params["TemplateBody"], fetched |-> NoFetch]
    ELSE IF Has(params, "TemplateUrl")
    THEN IF fetch.exc = "none"
         THEN [exc |-> "none", val |-> fetch.val, fetched |-> Fetched(fetch)]
         ELSE IF IsInstance(fetch.exc, "IOError")
         THEN [exc |-> "HeatInvalidParameterValueError", val |-> None,
               fetched |-> Fetched(fetch)]
         ELSE [exc |-> fetch.exc, val |-> None, fetched |-> Fetched(fetch)]
    ELSE [exc |-> "none", val |-> None, fetched |-> NoFetch]

(* ------------------------------------------------------------------ *)
(* Response projection                                                 *)
(* ------------------------------------------------------------------ *)

\* Bound on the number of records in an engine result list.
MaxRecords == 2

\* Sequences over `set` of length at most n.
SeqsUpTo(set, n) == UNION {[1..k -> set] : k \in 0..n}

\* api_utils.reformat_dict_keys(keymap, inputdict): the entries of inputdict
\* whose key is in keymap, under the new name; the others are dropped.
reformat_dict_keys(keymap, d) ==
    LET ins == DOMAIN keymap \cap DOMAIN d
    IN  [outk \in {keymap[ink] : ink \in ins} |->
            d[CHOOSE ink \in ins : keymap[ink] = outk]]

\* Adds or replaces entry k of dict d.
Put(d, k, v) == [x \in DOMAIN d \cup {k} |-> IF x = k THEN v ELSE d[x]]

\* '_'.join((action, status)): a status string is the sequence of its
\* '_'-separated words.
JoinStatus_status_first(action, status) == status \o action

JoinStatus(action, status) == action \o status

\* _id_format(resp): StackId as an ARN, EventId as the bare event id.
_id_format(resp) ==
    LET r1 == IF "StackId" \in DOMAIN resp
              THEN Put(resp, "StackId", arn(resp["StackId"]))
              ELSE resp
    IN  IF "EventId" \in DOMAIN r1
        THEN Put(r1, "EventId", r1["EventId"].path[Len(r1["EventId"].path)])
        ELSE r1

\* format_stack_summary(s), lines 116-142.
format_stack_summary(s) ==
    LET keymap == [STACK_CREATION_TIME |-> "CreationTime",
                   STACK_UPDATED_TIME |-> "LastUpdatedTime",
                   STACK_ID |-> "StackId",
                   STACK_NAME |-> "StackName",
                   STACK_STATUS_DATA |-> "StackStatusReason",
                   STACK_TMPL_DESCRIPTION |-> "TemplateDescription"]
        result == Put(reformat_dict_keys(keymap, s), "StackStatus",
                      JoinStatus(s["STACK_ACTION"], s["STACK_STATUS"]))
    IN  _id_format(IF "STACK_DELETION_TIME" \in DOMAIN s
                   THEN Put(result, "DeletionTime", s["STACK_DELETION_TIME"])
                   ELSE result)

\* Values of an engine output: a scalar, a dict (a function from keys to
\* values) or a list.  A dict key is the sequence of its characters, as far
\* as ':' and '.' are concerned: "a:b" is <<"a", ":", "b">>.
Scalar(x) == [t |-> "scalar", v |-> x]
Dict(f) == [t |-> "dict", v |-> f]
List(xs) == [t |-> "list", v |-> xs]

\* k.replace(':', '.')
ReplaceColon(k) == [i \in DOMAIN k |-> IF k[i] = ":" THEN "." ELSE k[i]]

\* replacecolon(d), lines 168-170: a new dict with ':' replaced by '.' in
\* every key.  Of two keys that become equal one entry survives.
replacecolon(d) ==
    [nk \in {ReplaceColon(k) : k \in DOMAIN d} |->
        d[CHOOSE k \in DOMAIN d : ReplaceColon(k) = nk]]

\* transform(attrs), lines 172-181: replacecolon on the dict, then on every
\* value that is itself a dict.
RECURSIVE transform(_)
transform(attrs) ==
    LET new == replacecolon(attrs)
    IN  [key \in DOMAIN new |->
            IF new[key].t = "dict" THEN Dict(transform(new[key].v))
            ELSE new[key]]

\* format_stack_outputs(o), lines 161-183.
format_stack_outputs(o) ==
    LET keymap == (<<"OUTPUT_DESCRIPTION">> :> "Description")
                  @@ (<<"OUTPUT_KEY">> :> "OutputKey")
                  @@ (<<"OUTPUT_VALUE">> :> "OutputValue")
    IN  reformat_dict_keys(keymap, transform(o))

\* format_stack(s), lines 185-224.
format_stack(s) ==
    LET keymap == [STACK_CAPABILITIES |-> "Capabilities",
                   STACK_CREATION_TIME |-> "CreationTime",
                   STACK_DESCRIPTION |-> "Description",
                   STACK_DISABLE_ROLLBACK |-> "DisableRollback",
                   STACK_UPDATED_TIME |-> "LastUpdatedTime",
                   STACK_NOTIFICATION_TOPICS |-> "NotificationARNs",
                   STACK_PARAMETERS |-> "Parameters",
                   STACK_ID |-> "StackId",
                   STACK_NAME |-> "StackName",
                   STACK_STATUS_DATA |-> "StackStatusReason",
                   STACK_TIMEOUT |-> "TimeoutInMinutes"]
        r0 == reformat_dict_keys(keymap, s)
        r1 == Put(r0, "StackStatus",
                  JoinStatus(s["STACK_ACTION"], s["STACK_STATUS"]))
        r2 == Put(r1, "Outputs",
                  IF "STACK_OUTPUTS" \in DOMAIN s
                  THEN [i \in DOMAIN s["STACK_OUTPUTS"] |->
                            format_stack_outputs(s["STACK_OUTPUTS"][i])]
                  ELSE <<>>)
        r3 == Put(r2, "Parameters",
                  {[ParameterKey |-> k, ParameterValue |-> r2["Parameters"][k]] :
                      k \in DOMAIN r2["Parameters"]})
    IN  _id_format(r3)

\* format_stack_event(e), lines 478-501.  json.dumps of the properties is
\* carried as a tagged value.
format_stack_event(e) ==
    LET keymap == [EVENT_ID |-> "EventId",
                   EVENT_RES_NAME |-> "LogicalResourceId",
                   EVENT_RES_PHYSICAL_ID |-> "PhysicalResourceId",
                   EVENT_RES_PROPERTIES |-> "ResourceProperties",
                   EVENT_RES_STATUS_DATA |-> "ResourceStatusReason",
                   EVENT_RES_TYPE |-> "ResourceType",
                   EVENT_STACK_ID |-> "StackId",
                   EVENT_STACK_NAME |-> "StackName",
                   EVENT_TIMESTAMP |-> "Timestamp"]
        r0 == reformat_dict_keys(keymap, e)
        r1 == Put(r0, "ResourceStatus",
                  JoinStatus(e["EVENT_RES_ACTION"], e["EVENT_RES_STATUS"]))
        r2 == Put(r1, "ResourceProperties",
                  [json |-> r1["ResourceProperties"]])
    IN  _id_format(r2)

\* _resource_status(res), lines 516-520.
_resource_status(res) == JoinStatus(res["RES_ACTION"], res["RES_STATUS"])

\* format_resource_detail(r), lines 529-549.
format_resource_detail(r) ==
    LET keymap == [RES_DESCRIPTION |-> "Description",
                   RES_UPDATED_TIME |-> "LastUpdatedTimestamp",
                   RES_NAME |-> "LogicalResourceId",
                   RES_METADATA |-> "Metadata",
                   RES_PHYSICAL_ID |-> "PhysicalResourceId",
                   RES_STATUS_DATA |-> "ResourceStatusReason",
                   RES_TYPE |-> "ResourceType",
                   RES_STACK_ID |-> "StackId",
                   RES_STACK_NAME |-> "StackName"]
    IN  _id_format(Put(reformat_dict_keys(keymap, r), "ResourceStatus",
                       _resource_status(r)))

\* format_stack_resource(r), lines 586-605.
format_stack_resource(r) ==
    LET keymap == [RES_DESCRIPTION |-> "Description",
                   RES_NAME |-> "LogicalResourceId",
                   RES_PHYSICAL_ID |-> "PhysicalResourceId",
                   RES_STATUS_DATA |-> "ResourceStatusReason",
                   RES_TYPE |-> "ResourceType",
                   RES_STACK_ID |-> "StackId",
                   RES_STACK_NAME |-> "StackName",
                   RES_UPDATED_TIME |-> "Timestamp"]
    IN  _id_format(Put(reformat_dict_keys(keymap, r), "ResourceStatus",
                       _resource_status(r)))

format_resource_summary_passthrough(r) ==
    Put(r, "ResourceStatus", _resource_status(r))

\* format_resource_summary(r), lines 641-657.
format_resource_summary(r) ==
    LET keymap == [RES_UPDATED_TIME |-> "LastUpdatedTimestamp",
                   RES_NAME |-> "LogicalResourceId",
                   RES_PHYSICAL_ID |-> "PhysicalResourceId",
                   RES_STATUS_DATA |-> "ResourceStatusReason",
                   RES_TYPE |-> "ResourceType"]
    IN  Put(reformat_dict_keys(keymap, r), "ResourceStatus",
            _resource_status(r))

(* ------------------------------------------------------------------ *)
(* Engine records                                                      *)
(* ------------------------------------------------------------------ *)

\* An output of a stack: its value is a dict with a key holding ':', whose
\* value is a dict with such a key again, beside a scalar and a list of
\* dicts.
StackOutput ==
    (<<"OUTPUT_KEY">> :> Scalar("Endpoint"))
    @@ (<<"OUTPUT_DESCRIPTION">> :> Scalar("the endpoint"))
    @@ (<<"OUTPUT_VALUE">> :>
            Dict((<<"a", ":", "b">> :>
                      Dict((<<"c", ":", "d">> :> Scalar("x:y"))
                           @@ (<<"e">> :> Scalar("z"))))
                 @@ (<<"items">> :>
                      List(<<Dict(<<"f", ":", "g">> :> Scalar("w"))>>))))

\* Stack records as show_stack / list_stacks return them; the outputs are
\* there for a completely created stack only.
StackRecords ==
    {[STACK_NAME |-> S(i.stack_name), STACK_ID |-> i,
      STACK_ACTION |-> a, STACK_STATUS |-> st,
      STACK_PARAMETERS |-> [KeyName |-> S("k1")],
      STACK_TMPL_DESCRIPTION |-> S("a template")] :
        i \in {Identity("t1", "s1", "id1", <<>>)},
        a \in {<<"CREATE">>, <<"DELETE">>},
        st \in {<<"IN", "PROGRESS">>}}
    \cup
    {[STACK_NAME |-> S(i.stack_name), STACK_ID |-> i,
      STACK_ACTION |-> <<"CREATE">>, STACK_STATUS |-> <<"COMPLETE">>,
      STACK_PARAMETERS |-> [KeyName |-> S("k1")],
      STACK_TMPL_DESCRIPTION |-> S("a template"),
      STACK_OUTPUTS |-> outs] :
        i \in {Identity("t1", "s1", "id1", <<>>)},
        outs \in {<<>>, <<StackOutput>>}}

\* Resource records as the describe/list resource operations return them.
ResourceRecords ==
    {[RES_NAME |-> S("res1"), RES_PHYSICAL_ID |-> S("phys1"),
      RES_TYPE |-> S("AWS"), RES_STACK_ID |-> i,
      RES_STACK_NAME |-> S(i.stack_name),
      RES_ACTION |-> a, RES_STATUS |-> st,
      resource_identity |-> Identity(i.tenant, i.stack_name, i.stack_id,
                                     <<"resources", "res1">>)] :
        i \in {Identity("t1", "s1", "id1", <<>>)},
        a \in {<<"CREATE">>, <<"UPDATE">>},
        st \in {<<"COMPLETE">>, <<"FAILED">>}}

\* Event records as list_events returns them.
EventRecords ==
    {[EVENT_ID |-> Identity(i.tenant, i.stack_name, i.stack_id,
                            <<"resources", "res1", "events", "42">>),
      EVENT_STACK_ID |-> i, EVENT_STACK_NAME |-> S(i.stack_name),
      EVENT_RES_NAME |-> S("res1"),
      EVENT_RES_PROPERTIES |-> [Size |-> S("1")],
      EVENT_RES_ACTION |-> a, EVENT_RES_STATUS |-> st] :
        i \in {Identity("t1", "s1", "id1", <<>>)},
        a \in {<<"CREATE">>},
        st \in {<<"COMPLETE">>, <<"FAILED">>}}

ListAnswers(records) ==
    {Ok(l) : l \in SeqsUpTo(records, MaxRecords)}
    \cup {Err(e) : e \in EngineErrors}

(* ------------------------------------------------------------------ *)
(* CreateStack / UpdateStack                                           *)
(* ------------------------------------------------------------------ *)

CREATE_STACK == "CreateStack"
UPDATE_STACK == "UpdateStack"
CREATE_OR_UPDATE_ACTION == {CREATE_STACK, UPDATE_STACK}

EngineArgs_directive_passed_on(params) ==
    [timeout_mins |-> params["TimeoutInMinutes"],
     disable_rollback |-> params["DisableRollback"],
     OnFailure |-> params["OnFailure"]]

\* The engine-side arguments built from TimeoutInMinutes / DisableRollback,
\* then overridden from OnFailure.
EngineArgs(params) ==
    [timeout_mins |-> params["TimeoutInMinutes"],
     disable_rollback |->
        IF Has(params, "OnFailure") /\ params["OnFailure"] = S("DO_NOTHING")
        THEN S("true")
        ELSE IF Has(params, "OnFailure")
                /\ params["OnFailure"] \in {S("ROLLBACK"), S("DELETE")}
        THEN S("false")
        ELSE params["DisableRollback"]]

extract_args_unchecked(params) == Ok(EngineArgs(params))

\* extract_args(params): the engine arguments, or
\* HeatInvalidParameterCombinationError when DisableRollback and OnFailure
\* are both in the request.
extract_args(params) ==
    IF Has(params, "DisableRollback") /\ Has(params, "OnFailure")
    THEN Err("HeatInvalidParameterCombinationError")
    ELSE Ok(EngineArgs(params))

\* api_utils.extract_param_pairs: the Parameters.member.N groups of the
\* request as a key -> value mapping.  A group lacking its key or its value
\* is skipped; of two groups with one key the later wins.
extract_param_pairs(groups) ==
    LET ok == {i \in DOMAIN groups :
                  /\ groups[i].ParameterKey /= None
                  /\ groups[i].ParameterValue /= None}
        last(k) == CHOOSE i \in ok :
                      /\ groups[i].ParameterKey = k
                      /\ \A j \in ok : groups[j].ParameterKey = k => j <= i
    IN  [k \in {groups[i].ParameterKey : i \in ok} |->
            groups[last(k)].ParameterValue]

\* _extract_user_params(params), lines 82-95.  The request's groups are kept
\* under the key "Parameters", in member order; None when there are none.
_extract_user_params(params) == extract_param_pairs(params["Parameters"])

\* Answers of create_stack / update_stack: identifier fields, or a result that
\* forms no identifier, or a failure.
CreateAnswers ==
    {Ok(i) : i \in EngineIdentities}
    \cup {Ok([Description |-> S("validation failed")]),
          Ok([stack_name |-> "s1", stack_id |-> "id1"])}
    \cup {Err(e) : e \in EngineErrors}

\* identifier.HeatIdentifier(**result) succeeds on identifier fields only.
IsIdentityFields(result) ==
    DOMAIN result = {"tenant", "stack_name", "stack_id", "path"}

\* Lines 348-357: the try block of create_or_update.
create_or_update_try(action, params, stack, create_args, resolve, main) ==
    LET args == [template |-> stack,
                 params |-> _extract_user_params(params),
                 files |-> <<>>,
                 args |-> create_args]
    IN  IF ~Has(params, "StackName") THEN Step("KeyError", None, <<>>)
        ELSE IF action = CREATE_STACK
        THEN EngineCall("create_stack",
                        Put(args, "stack_name", params["StackName"]), main)
        ELSE LET idr == _get_identity(params["StackName"], resolve)
             IN  Seq2(idr, EngineCall("update_stack",
                                      Put(args, "stack_identity", idr.val),
                                      main))

\* Lines 359-366: the response of a successful create or update.
create_or_update_response(action, result) ==
    IF IsIdentityFields(result)
    THEN format_response(action, [StackId |-> arn(result)])
    ELSE format_response(action, result)

create_or_update(action, params, fetch, resolve, main) ==
    IF action \notin CREATE_OR_UPDATE_ACTION
    THEN Run(NoFetch, <<>>, Fault("HeatInternalFailureError", "return"))
    ELSE
    LET create_args == extract_args(params)
        t == _get_template(params, fetch)
        p == parse(t.val)
        e == create_or_update_try(action, params, p.val, create_args.val,
                                  resolve, main)
    IN  IF create_args.exc /= "none"
        THEN Run(NoFetch, <<>>, Raised(create_args.exc))
        ELSE IF t.exc /= "none"
        THEN IF IsInstance(t.exc, "gaierror")
             THEN Run(t.fetched, <<>>,
                      Fault("HeatInvalidParameterValueError", "return"))
             ELSE Run(t.fetched, <<>>, Raised(t.exc))
        ELSE IF t.val = None
        THEN Run(t.fetched, <<>>, Fault("HeatMissingParameterError", "return"))
        ELSE IF p.exc /= "none"
        THEN IF IsInstance(p.exc, "ValueError")
             THEN Run(t.fetched, <<>>,
                      Fault("HeatInvalidParameterValueError", "return"))
             ELSE Run(t.fetched, <<>>, Raised(p.exc))
        ELSE IF e.exc /= "none"
        THEN Run(t.fetched, e.calls, map_remote_error(e.exc))
        ELSE Run(t.fetched, e.calls, create_or_update_response(action, e.val))

\* A handler's run on a request: _enforce first, then the body.
Handle(policy, run) ==
    IF _enforce(policy) /= "none"
    THEN Run(NoFetch, <<>>, Raised(_enforce(policy)))
    ELSE run

(* ------------------------------------------------------------------ *)
(* The other handlers                                                  *)
(* ------------------------------------------------------------------ *)

\* An answer slot of a collaborator the handler never asks.
Unasked == Err("unasked")

\* list(req), lines 144-152.
list(main) ==
    LET e == EngineCall("list_stacks", [con |-> "context"], main)
    IN  IF e.exc /= "none"
        THEN Run(NoFetch, e.calls, map_remote_error(e.exc))
        ELSE Run(NoFetch, e.calls,
                 format_response("ListStacks",
                     [StackSummaries |-> [i \in DOMAIN e.val |-> format_stack_summary(e.val[i])]]))

\* describe(req), lines 226-243.
describe(params, resolve, main) ==
    LET idr == IF Has(params, "StackName")
               THEN _get_identity(params["StackName"], resolve)
               ELSE Step("none", None, <<>>)
        e == Seq2(idr, EngineCall("show_stack", [stack_identity |-> idr.val],
                                  main))
    IN  IF e.exc /= "none"
        THEN Run(NoFetch, e.calls, map_remote_error(e.exc))
        ELSE Run(NoFetch, e.calls,
                 format_response("DescribeStacks",
                     [Stacks |-> [i \in DOMAIN e.val |-> format_stack(e.val[i])]]))

\* Answers of the engine's get_template: a template, None, or a failure.
GetTemplateAnswers ==
    {Ok(None), Ok([Resources |-> S("r")])} \cup {Err(e) : e \in EngineErrors}

\* Lines 376-380 and alike: identity = self._get_identity(con,
\* req.params['StackName']) followed by the main call, in one try block.
ByStackName(params, op, more, resolve, main) ==
    IF ~Has(params, "StackName") THEN Step("KeyError", None, <<>>)
    ELSE LET idr == _get_identity(params["StackName"], resolve)
         IN  Seq2(idr, EngineCall(op, Put(more, "stack_identity", idr.val),
                                  main))

get_template_not_found(params, resolve, main) ==
    LET e == ByStackName(params, "get_template", <<>>, resolve, main)
    IN  IF e.exc /= "none"
        THEN Run(NoFetch, e.calls, map_remote_error(e.exc))
        ELSE IF e.val = None
        THEN Run(NoFetch, e.calls, map_remote_error("NotFound"))
        ELSE Run(NoFetch, e.calls,
                 format_response("GetTemplate", [TemplateBody |-> e.val]))

\* get_template(req), lines 375-387.
get_template(params, resolve, main) ==
    LET e == ByStackName(params, "get_template", <<>>, resolve, main)
    IN  IF e.exc /= "none"
        THEN Run(NoFetch, e.calls, map_remote_error(e.exc))
        ELSE IF e.val = None
        THEN Run(NoFetch, e.calls,
                 Fault("HeatInvalidParameterValueError", "return"))
        ELSE Run(NoFetch, e.calls,
                 format_response("GetTemplate", [TemplateBody |-> e.val]))

\* estimate_template_cost(req), lines 396-400.
estimate_template_cost ==
    Run(NoFetch, <<>>,
        format_response("EstimateTemplateCost",
            [Url |-> <<<<"http">>, <<"", "", "en.wikipedia.org", "wiki", "Gratis">>>>]))

\* Answers of the engine's validate_template.
ValidateAnswers ==
    {Ok([Error |-> S("invalid template")]),
     Ok([Description |-> S("a template"),
         Parameters |-> [KeyName |-> [Default |-> S("k1")]]]),
     Ok([Description |-> S("a template")])}
    \cup {Err(e) : e \in EngineErrors}

\* format_validate_parameter(key, value), lines 427-437.
format_validate_parameter(key, value) ==
    LET get(k, default) == IF k \in DOMAIN value THEN value[k] ELSE default
    IN  [ParameterKey |-> key,
         DefaultValue |-> get("Default", S("")),
         Description |-> get("Description", S("")),
         NoEcho |-> get("NoEcho", S("false"))]

\* Lines 439-449: the try block of validate_template.
validate_template_try(template, main) ==
    LET e == EngineCall("validate_template", [template |-> template], main)
        res == e.val
    IN  IF e.exc /= "none" THEN Run(NoFetch, e.calls, map_remote_error(e.exc))
        ELSE IF "Error" \in DOMAIN res
        THEN Run(NoFetch, e.calls,
                 format_response("ValidateTemplate", res["Error"]))
        ELSE IF "Parameters" \notin DOMAIN res
        THEN Run(NoFetch, e.calls, map_remote_error("KeyError"))
        ELSE Run(NoFetch, e.calls,
                 format_response("ValidateTemplate",
                     Put(res, "Parameters",
                         {format_validate_parameter(k, res["Parameters"][k]) :
                             k \in DOMAIN res["Parameters"]})))

\* validate_template(req), lines 409-449.
validate_template(params, fetch, main) ==
    LET t == _get_template(params, fetch)
        p == parse(t.val)
        v == validate_template_try(p.val, main)
    IN  IF t.exc /= "none"
        THEN IF IsInstance(t.exc, "gaierror")
             THEN Run(t.fetched, <<>>,
                      Fault("HeatInvalidParameterValueError", "return"))
             ELSE Run(t.fetched, <<>>, Raised(t.exc))
        ELSE IF t.val = None
        THEN Run(t.fetched, <<>>, Fault("HeatMissingParameterError", "return"))
        ELSE IF p.exc /= "none"
        THEN IF IsInstance(p.exc, "ValueError")
             THEN Run(t.fetched, <<>>,
                      Fault("HeatInvalidParameterValueError", "return"))
             ELSE Run(t.fetched, <<>>, Raised(p.exc))
        ELSE Run(t.fetched, v.calls, v.outcome)

\* Answers of the engine's delete_stack (cast=False): None, or an in-band
\* {'Error': ...}, or a failure.
DeleteAnswers ==
    {Ok(None), Ok([Error |-> S("delete failed")])}
    \cup {Err(e) : e \in EngineErrors}

delete_trailing_check(params, resolve, main) ==
    LET e == ByStackName(params, "delete_stack", [cast |-> FALSE], resolve, main)
        check == Call("show_stack", [stack_identity |-> None], Ok(<<>>))
    IN  IF e.exc /= "none"
        THEN Run(NoFetch, e.calls, map_remote_error(e.exc))
        ELSE IF e.val = None
        THEN Run(NoFetch, e.calls \o <<check>>,
                 format_response("DeleteStack", S("")))
        ELSE Run(NoFetch, e.calls,
                 format_response("DeleteStack", e.val["Error"]))

\* delete(req), lines 458-469.
delete(params, resolve, main) ==
    LET e == ByStackName(params, "delete_stack", [cast |-> FALSE], resolve, main)
    IN  IF e.exc /= "none"
        THEN Run(NoFetch, e.calls, map_remote_error(e.exc))
        ELSE IF e.val = None
        THEN Run(NoFetch, e.calls, format_response("DeleteStack", S("")))
        ELSE Run(NoFetch, e.calls,
                 format_response("DeleteStack", e.val["Error"]))

\* events_list(req), lines 503-514.
events_list(params, resolve, main) ==
    LET stack_name == params["StackName"]
        idr == IF Truthy(stack_name)
               THEN _get_identity(stack_name, resolve)
               ELSE Step("none", stack_name, <<>>)
        e == Seq2(idr, EngineCall("list_events", [stack_identity |-> idr.val],
                                  main))
    IN  IF e.exc /= "none"
        THEN Run(NoFetch, e.calls, map_remote_error(e.exc))
        ELSE Run(NoFetch, e.calls,
                 format_response("DescribeStackEvents",
                     [StackEvents |-> [i \in DOMAIN e.val |-> format_stack_event(e.val[i])]]))

\* Answers of the engine's describe_stack_resource: one resource record.
ResourceAnswers ==
    {Ok(r) : r \in ResourceRecords} \cup {Err(e) : e \in EngineErrors}

\* describe_stack_resource(req), lines 551-566.
describe_stack_resource(params, resolve, main) ==
    LET e == ByStackName(params, "describe_stack_resource",
                         [resource_name |-> params["LogicalResourceId"]],
                         resolve, main)
    IN  IF e.exc /= "none"
        THEN Run(NoFetch, e.calls, map_remote_error(e.exc))
        ELSE Run(NoFetch, e.calls,
                 format_response("DescribeStackResource",
                     [StackResourceDetail |-> format_resource_detail(e.val)]))

describe_stack_resources_try_all_stacks(params, resolve, main) ==
    LET stack_name == params["StackName"]
        physical_resource_id == params["PhysicalResourceId"]
        idr == IF stack_name /= None
               THEN _get_identity(stack_name, resolve)
               ELSE IF physical_resource_id /= None
               THEN EngineCall("find_physical_resource",
                               [physical_resource_id |-> physical_resource_id],
                               resolve)
               ELSE Step("none", None, <<>>)
    IN  Seq2(idr, EngineCall("describe_stack_resources",
                             [stack_identity |-> idr.val,
                              resource_name |-> params["LogicalResourceId"]],
                             main))

\* Lines 614-624: the try block of describe_stack_resources.
describe_stack_resources_try(params, resolve, main) ==
    LET stack_name == params["StackName"]
        physical_resource_id == params["PhysicalResourceId"]
        idr == IF stack_name /= None
               THEN _get_identity(stack_name, resolve)
               ELSE EngineCall("find_physical_resource",
                               [physical_resource_id |-> physical_resource_id],
                               resolve)
    IN  Seq2(idr, EngineCall("describe_stack_resources",
                             [stack_identity |-> idr.val,
                              resource_name |-> params["LogicalResourceId"]],
                             main))

\* describe_stack_resources(req), lines 607-632.
describe_stack_resources(params, resolve, main) ==
    LET stack_name == params["StackName"]
        physical_resource_id == params["PhysicalResourceId"]
        e == describe_stack_resources_try(params, resolve, main)
    IN  IF Truthy(stack_name) /\ Truthy(physical_resource_id)
        THEN Run(NoFetch, <<>>,
                 Fault("HeatInvalidParameterCombinationError", "return"))
        ELSE IF e.exc /= "none"
        THEN Run(NoFetch, e.calls, map_remote_error(e.exc))
        ELSE Run(NoFetch, e.calls,
                 format_response("DescribeStackResources",
                     [StackResources |-> [i \in DOMAIN e.val |-> format_stack_resource(e.val[i])]]))

\* list_stack_resources(req), lines 659-672.
list_stack_resources(params, resolve, main) ==
    LET e == ByStackName(params, "list_stack_resources", <<>>, resolve, main)
    IN  IF e.exc /= "none"
        THEN Run(NoFetch, e.calls, map_remote_error(e.exc))
        ELSE Run(NoFetch, e.calls,
                 format_response("ListStackResources",
                     [StackResourceSummaries |->
                         [i \in DOMAIN e.val |-> format_resource_summary(e.val[i])]]))

(* ------------------------------------------------------------------ *)
(* Requests                                                            *)
(* ------------------------------------------------------------------ *)

GoodArn == arn(Identity("t1", "s1", "id1", <<>>))
\* Tokens that start like an identifier token but do not match the scheme.
ShortArn == << <<"arn">>, <<"openstack">>, <<"heat">>, <<"">>, <<"t1">> >>
ForeignArn ==
    << <<"arn">>, <<"aws">>, <<"cloudformation">>, <<"">>, <<"t1">>,
       <<"stacks", "s1", "id1">> >>
MalformedTokens == {ShortArn, ForeignArn}

StackNames == {S(""), S("mystack"), GoodArn} \cup MalformedTokens

Opt(vals) == {None} \cup vals

\* Parameters.member.1 is complete, member.2 lacks its value, member.3
\* repeats the key of member.1.
UserParameterGroups ==
    <<[ParameterKey |-> S("KeyName"), ParameterValue |-> S("k1")],
      [ParameterKey |-> S("Flavor"), ParameterValue |-> None],
      [ParameterKey |-> S("KeyName"), ParameterValue |-> S("k2")]>>

\* "http://host/t.json"
TemplateUrl == <<<<"http">>, <<"", "", "host", "t.json">>>>

CreateParams ==
    {[NoParams EXCEPT !["StackName"] = sn, !["TemplateBody"] = tb,
                      !["TemplateUrl"] = tu, !["DisableRollback"] = dr,
                      !["OnFailure"] = onf, !["TimeoutInMinutes"] = tm,
                      !["Parameters"] = up] :
        sn \in Opt({S("mystack"), GoodArn, ShortArn}),
        tb \in Opt({GoodTemplate, BadTemplate}),
        tu \in Opt({TemplateUrl}),
        dr \in Opt({S("true")}),
        onf \in Opt({S("DO_NOTHING"), S("ROLLBACK"), S("DELETE"), S("BOGUS")}),
        tm \in Opt({S("10")}),
        up \in Opt({UserParameterGroups})}

\* Requests that name a stack, or do not.
NameParams ==
    {[NoParams EXCEPT !["StackName"] = sn] : sn \in Opt(StackNames)}

\* Requests of the resource queries.
ResourceParams ==
    {[NoParams EXCEPT !["StackName"] = sn, !["PhysicalResourceId"] = ph,
                      !["LogicalResourceId"] = lg] :
        sn \in Opt(StackNames),
        ph \in Opt({S(""), S("phys1")}),
        lg \in Opt({S("res1")})}

\* Requests that carry a template, or do not.
TemplateParams ==
    {[NoParams EXCEPT !["TemplateBody"] = tb, !["TemplateUrl"] = tu] :
        tb \in Opt({GoodTemplate, BadTemplate}),
        tu \in Opt({TemplateUrl})}

(* ------------------------------------------------------------------ *)
(* The server: one request at a time                                   *)
(* ------------------------------------------------------------------ *)

Init ==
    /\ req = [action |-> "none", params |-> NoParams]
    /\ authz = "none"
    /\ fetched = NoFetch
    /\ calls = <<>>
    /\ outcome = Idle

\* The dispatcher hands request (action, params) to its handler, whose run
\* is `run`.
Dispatch(action, params, policy, run) ==
    /\ req' = [action |-> action, params |-> params]
    /\ authz' = policy
    /\ fetched' = run.fetched
    /\ calls' = run.calls
    /\ outcome' = run.outcome

create ==
    /\ outcome.type = "idle"
    /\ \E params \in CreateParams, policy \in PolicyAnswers,
          fetch \in FetchAnswers, main \in CreateAnswers :
        Dispatch(CREATE_STACK, params, policy,
                 Handle(policy, create_or_update(CREATE_STACK, params, fetch,
                                                 Unasked, main)))

update ==
    /\ outcome.type = "idle"
    /\ \E params \in CreateParams, policy \in PolicyAnswers,
          fetch \in FetchAnswers, resolve \in ResolveAnswers,
          main \in CreateAnswers :
        Dispatch(UPDATE_STACK, params, policy,
                 Handle(policy, create_or_update(UPDATE_STACK, params, fetch,
                                                 resolve, main)))

ListStacks ==
    /\ outcome.type = "idle"
    /\ \E policy \in PolicyAnswers, main \in ListAnswers(StackRecords) :
        Dispatch("ListStacks", NoParams, policy, Handle(policy, list(main)))

DescribeStacks ==
    /\ outcome.type = "idle"
    /\ \E params \in NameParams, policy \in PolicyAnswers,
          resolve \in ResolveAnswers, main \in ListAnswers(StackRecords) :
        Dispatch("DescribeStacks", params, policy,
                 Handle(policy, describe(params, resolve, main)))

GetTemplate ==
    /\ outcome.type = "idle"
    /\ \E params \in NameParams, policy \in PolicyAnswers,
          resolve \in ResolveAnswers, main \in GetTemplateAnswers :
        Dispatch("GetTemplate", params, policy,
                 Handle(policy, get_template(params, resolve, main)))

EstimateTemplateCost ==
    /\ outcome.type = "idle"
    /\ \E params \in TemplateParams, policy \in PolicyAnswers :
        Dispatch("EstimateTemplateCost", params, policy,
                 Handle(policy, estimate_template_cost))

ValidateTemplate ==
    /\ outcome.type = "idle"
    /\ \E params \in TemplateParams, policy \in PolicyAnswers,
          fetch \in FetchAnswers, main \in ValidateAnswers :
        Dispatch("ValidateTemplate", params, policy,
                 Handle(policy, validate_template(params, fetch, main)))

DeleteStack ==
    /\ outcome.type = "idle"
    /\ \E params \in NameParams, policy \in PolicyAnswers,
          resolve \in ResolveAnswers, main \in DeleteAnswers :
        Dispatch("DeleteStack", params, policy,
                 Handle(policy, delete(params, resolve, main)))

DescribeStackEvents ==
    /\ outcome.type = "idle"
    /\ \E params \in NameParams, policy \in PolicyAnswers,
          resolve \in ResolveAnswers, main \in ListAnswers(EventRecords) :
        Dispatch("DescribeStackEvents", params, policy,
                 Handle(policy, events_list(params, resolve, main)))

DescribeStackResource ==
    /\ outcome.type = "idle"
    /\ \E params \in ResourceParams, policy \in PolicyAnswers,
          resolve \in ResolveAnswers, main \in ResourceAnswers :
        Dispatch("DescribeStackResource", params, policy,
                 Handle(policy, describe_stack_resource(params, resolve, main)))

DescribeStackResources ==
    /\ outcome.type = "idle"
    /\ \E params \in ResourceParams, policy \in PolicyAnswers,
          resolve \in ResolveAnswers, main \in ListAnswers(ResourceRecords) :
        Dispatch("DescribeStackResources", params, policy,
                 Handle(policy, describe_stack_resources(params, resolve, main)))

ListStackResources ==
    /\ outcome.type = "idle"
    /\ \E params \in NameParams, policy \in PolicyAnswers,
          resolve \in ResolveAnswers, main \in ListAnswers(ResourceRecords) :
        Dispatch("ListStackResources", params, policy,
                 Handle(policy, list_stack_resources(params, resolve, main)))

\* The response (or fault) is serialized and the next request awaited.
Reply ==
    /\ outcome.type /= "idle"
    /\ req' = [action |-> "none", params |-> NoParams]
    /\ authz' = "none"
    /\ fetched' = NoFetch
    /\ calls' = <<>>
    /\ outcome' = Idle

Next ==
    \/ ListStacks
    \/ DescribeStacks
    \/ create
    \/ update
    \/ GetTemplate
    \/ EstimateTemplateCost
    \/ ValidateTemplate
    \/ DeleteStack
    \/ DescribeStackEvents
    \/ DescribeStackResource
    \/ DescribeStackResources
    \/ ListStackResources
    \/ Reply

Spec == Init /\ [][Next]_vars

(* ------------------------------------------------------------------ *)
(* Properties                                                          *)
(* ------------------------------------------------------------------ *)

\* The engine operations invoked while handling the current request.
Ops == {calls[i].op : i \in DOMAIN calls}

IsFault(kind) == outcome.type = "fault" /\ outcome.kind = kind

\* The request passed authorization and its handler ran.
Authorized == outcome.type /= "idle" /\ authz = "allow"

BothRollbackInputs ==
    Has(req.params, "DisableRollback") /\ Has(req.params, "OnFailure")

\* C1: a CreateStack/UpdateStack request that contains both DisableRollback
\* and OnFailure makes no engine call at all, and create_or_update (entered
\* once the request is authorized) ends it in an InvalidParameterCombination
\* fault, whatever the template parameters and the StackName are.
C1_RollbackInputsExclusive ==
    (req.action \in CREATE_OR_UPDATE_ACTION /\ BothRollbackInputs)
        => /\ calls = <<>>
           /\ ~fetched.attempted
           /\ Authorized => IsFault("InvalidParameterCombination")

C1_Witness ==
    /\ req.action = UPDATE_STACK /\ Authorized /\ BothRollbackInputs
    /\ req.params["StackName"] = GoodArn
    /\ req.params["TemplateBody"] = GoodTemplate
    /\ IsFault("InvalidParameterCombination")

\* The actions that resolve req.params['StackName'] through _get_identity
\* whenever the parameter is present.
ResolvingActions ==
    {"DescribeStacks", "GetTemplate", "DeleteStack", "DescribeStackResource",
     "ListStackResources"}

ResolvesStackName ==
    /\ Authorized
    /\ req.action \in ResolvingActions
    /\ Has(req.params, "StackName")

\* C2: _get_identity has two paths.  A StackName that decodes as an identifier
\* token is decoded locally: identify_stack is not invoked and the main
\* operation receives the decoded identifier.  Any other StackName goes to
\* identify_stack exactly once, as the name, before anything else, and the
\* engine's answer is what the main operation receives.
C2_ResolveTwoPaths ==
    ResolvesStackName =>
        LET name == req.params["StackName"]
            d == from_arn(name)
        IN  IF d.exc = "none"
            THEN /\ "identify_stack" \notin Ops
                 /\ Len(calls) = 1
                 /\ calls[1].args["stack_identity"] = d.val
            ELSE /\ Len(calls) >= 1
                 /\ calls[1].op = "identify_stack"
                 /\ calls[1].args["stack_name"] = name
                 /\ \A i \in DOMAIN calls : calls[i].op = "identify_stack" => i = 1
                 /\ calls[1].ret.exc = "none"
                        => /\ Len(calls) = 2
                           /\ calls[2].args["stack_identity"] = calls[1].ret.val

C2_Witness ==
    /\ ResolvesStackName
    /\ req.params["StackName"] = S("mystack")
    /\ Len(calls) = 2
    /\ calls[1].op = "identify_stack"
    /\ calls[2].op = "get_template"
    /\ calls[2].args["stack_identity"] = Identity("t1", "s2", "id2", <<>>)

\* C3: authorization comes first in every action.  When the policy check
\* denies, the request ends in AccessDenied; when it fails in any other way,
\* in InternalFailure; either way nothing was fetched, no engine operation was
\* invoked and no validation fault is reported.
C3_AuthorizationFirst ==
    (outcome.type /= "idle" /\ authz /= "allow")
        => /\ calls = <<>>
           /\ ~fetched.attempted
           /\ outcome.type = "fault"
           /\ outcome.kind = IF authz = "Forbidden" THEN "AccessDenied"
                             ELSE "InternalFailure"

C3_Witness ==
    /\ req.action = CREATE_STACK
    /\ authz = "RuntimeError"
    /\ BothRollbackInputs
    /\ ~Has(req.params, "TemplateBody")
    /\ IsFault("InternalFailure")

ResourcesQuery == Authorized /\ req.action = "DescribeStackResources"

\* C4: in DescribeStackResources, whenever StackName and PhysicalResourceId
\* are both in the request, the result is an InvalidParameterCombination fault
\* and no engine operation is invoked.
C4_BothLookupsRejected ==
    (/\ ResourcesQuery
     /\ Has(req.params, "StackName")
     /\ Has(req.params, "PhysicalResourceId"))
        => IsFault("InvalidParameterCombination") /\ calls = <<>>

\* C5 as stated: with neither StackName nor PhysicalResourceId the query is no
\* validation failure, makes no lookup by physical resource id, and asks
\* describe_stack_resources without a stack identifier.
C5_NeitherMeansAllStacks ==
    (/\ ResourcesQuery
     /\ ~Has(req.params, "StackName")
     /\ ~Has(req.params, "PhysicalResourceId"))
        => /\ ~IsFault("InvalidParameterCombination")
           /\ "find_physical_resource" \notin Ops
           /\ \E i \in DOMAIN calls :
                /\ calls[i].op = "describe_stack_resources"
                /\ calls[i].args["stack_identity"] = None

\* C5, amended: with neither StackName nor PhysicalResourceId the query is no
\* local validation failure; the handler first asks find_physical_resource
\* with an absent physical resource id; when that lookup answers, the
\* identifier it returned is what describe_stack_resources is asked with; when
\* it fails, describe_stack_resources is not invoked and the failure is mapped.
C5_NeitherLooksUpAbsentId ==
    (/\ ResourcesQuery
     /\ ~Has(req.params, "StackName")
     /\ ~Has(req.params, "PhysicalResourceId"))
        => /\ ~IsFault("InvalidParameterCombination")
           /\ Len(calls) >= 1
           /\ calls[1].op = "find_physical_resource"
           /\ calls[1].args["physical_resource_id"] = None
           /\ IF calls[1].ret.exc = "none"
              THEN /\ Len(calls) = 2
                   /\ calls[2].op = "describe_stack_resources"
                   /\ calls[2].args["stack_identity"] = calls[1].ret.val
              ELSE /\ Len(calls) = 1
                   /\ outcome = map_remote_error(calls[1].ret.exc)

C5_Witness ==
    /\ ResourcesQuery
    /\ ~Has(req.params, "StackName")
    /\ ~Has(req.params, "PhysicalResourceId")
    /\ Len(calls) = 2
    /\ calls[1].op = "find_physical_resource"
    /\ calls[2].op = "describe_stack_resources"
    /\ outcome.type = "response"

TemplateActions == CREATE_OR_UPDATE_ACTION \cup {"ValidateTemplate"}

NoTemplateSource ==
    /\ req.action \in TemplateActions
    /\ ~Has(req.params, "TemplateBody")
    /\ ~Has(req.params, "TemplateUrl")

\* C6 as stated: a CreateStack, UpdateStack or ValidateTemplate request with
\* neither TemplateBody nor TemplateUrl ends in a MissingParameter fault with
\* no engine operation invoked.
C6_NoTemplateIsMissingParameter ==
    (Authorized /\ NoTemplateSource)
        => IsFault("MissingParameter") /\ calls = <<>>

\* C6, amended: such a request makes no engine call, and ends in a
\* MissingParameter fault unless it is a CreateStack/UpdateStack request that
\* also contains both DisableRollback and OnFailure, which is rejected first
\* with InvalidParameterCombination.
C6_NoTemplateFaults ==
    (Authorized /\ NoTemplateSource)
        => /\ calls = <<>>
           /\ IF req.action \in CREATE_OR_UPDATE_ACTION /\ BothRollbackInputs
              THEN IsFault("InvalidParameterCombination")
              ELSE IsFault("MissingParameter")

C6_Witness ==
    /\ Authorized /\ NoTemplateSource
    /\ req.action = CREATE_STACK
    /\ Has(req.params, "OnFailure") /\ ~Has(req.params, "DisableRollback")
    /\ Has(req.params, "StackName")
    /\ IsFault("MissingParameter")

\* The template text the handler obtained, None when it obtained none.
ObtainedTemplate ==
    IF Has(req.params, "TemplateBody") THEN req.params["TemplateBody"]
    ELSE IF fetched.attempted /\ fetched.exc = "none" THEN fetched.val
    ELSE None

\* The handler reached template_format.parse and it failed.
ParseFailed ==
    /\ Authorized
    /\ req.action \in TemplateActions
    /\ ~(req.action \in CREATE_OR_UPDATE_ACTION /\ BothRollbackInputs)
    /\ ObtainedTemplate /= None
    /\ parse(ObtainedTemplate).exc /= "none"

FetchFailed ==
    /\ req.action \in TemplateActions
    /\ fetched.attempted
    /\ fetched.exc /= "none"

\* C7: in CreateStack, UpdateStack and ValidateTemplate a failed fetch of
\* TemplateUrl (an IOError, name resolution failure included) and a failed
\* parse of the obtained template both end in an InvalidParameterValue fault,
\* never in a raw exception, and no engine operation is invoked.
C7_TemplateFailuresAreInvalidParameter ==
    (FetchFailed \/ ParseFailed)
        => IsFault("InvalidParameterValue") /\ calls = <<>>

C7_Witness ==
    /\ FetchFailed
    /\ fetched.exc = "gaierror"
    /\ req.action = UPDATE_STACK
    /\ Has(req.params, "StackName")
    /\ IsFault("InvalidParameterValue")

HasMalformedToken ==
    Has(req.params, "StackName") /\ req.params["StackName"] \in MalformedTokens

\* C8 as stated: a StackName that is a malformed identifier token never
\* reaches the engine: no engine operation receives it.
C8_MalformedTokenStaysLocal ==
    HasMalformedToken =>
        \A i \in DOMAIN calls :
            /\ calls[i].op = "identify_stack"
                   => calls[i].args["stack_name"] /= req.params["StackName"]
            /\ calls[i].op = "create_stack"
                   => calls[i].args["stack_name"] /= req.params["StackName"]

\* C8, amended: a StackName that is a malformed identifier token is not
\* rejected locally.  Where the handler resolves StackName, the token is
\* handed to the engine's identify_stack as a name, exactly once and before
\* any other engine operation; no fault is raised locally, and a failure of
\* identify_stack is what the request ends in, as a mapped fault.
C8_MalformedTokenGoesToEngine ==
    (ResolvesStackName /\ HasMalformedToken)
        => /\ Len(calls) >= 1
           /\ calls[1].op = "identify_stack"
           /\ calls[1].args["stack_name"] = req.params["StackName"]
           /\ \A i \in DOMAIN calls : calls[i].op = "identify_stack" => i = 1
           /\ outcome.via = "return"
           /\ calls[1].ret.exc /= "none"
                  => /\ Len(calls) = 1
                     /\ outcome = map_remote_error(calls[1].ret.exc)

C8_Witness ==
    /\ ResolvesStackName /\ HasMalformedToken
    /\ req.action = "DeleteStack"
    /\ req.params["StackName"] = ShortArn
    /\ Len(calls) = 1
    /\ calls[1].ret.exc = "NotFound"
    /\ outcome.type = "fault"

\* C9: in every action a failure raised by an engine operation, the resolve
\* call or the main call, is caught and returned as the fault the fault mapper
\* gives for it: no exception leaves the handler, and no engine operation is
\* invoked after a failed one.
C9_EngineFailuresAreMapped ==
    \A i \in DOMAIN calls :
        calls[i].ret.exc /= "none"
            => /\ i = Len(calls)
               /\ outcome = map_remote_error(calls[i].ret.exc)
               /\ outcome.type = "fault" /\ outcome.via = "return"

C9_Witness ==
    /\ req.action = "DescribeStackResources"
    /\ Len(calls) = 1
    /\ calls[1].op = "find_physical_resource"
    /\ calls[1].ret.exc = "Timeout"
    /\ IsFault("InternalFailure")

\* The engine's get_template answered None.
TemplateAbsent ==
    /\ req.action = "GetTemplate"
    /\ calls /= <<>>
    /\ calls[Len(calls)].op = "get_template"
    /\ calls[Len(calls)].ret = Ok(None)

\* C10 as stated: in GetTemplate, when the engine's get_template returns no
\* template, the action ends in a ResourceNotFound fault.
C10_AbsentTemplateIsNotFound ==
    TemplateAbsent => IsFault("ResourceNotFound")

\* C10, amended: in GetTemplate, when the engine's get_template returns no
\* template, the action ends in an InvalidParameterValue fault, returned by
\* the handler.
C10_AbsentTemplateIsInvalidParameter ==
    TemplateAbsent => IsFault("InvalidParameterValue") /\ outcome.via = "return"

C10_Witness ==
    /\ TemplateAbsent
    /\ req.params["StackName"] = S("mystack")
    /\ Len(calls) = 2
    /\ IsFault("InvalidParameterValue")

\* The elements of a sequence.
Range(xs) == {xs[i] : i \in DOMAIN xs}

\* The records of a successful response that a keymap projection produced.
ProjectedRecords ==
    CASE outcome.kind = "ListStacks" -> Range(outcome.body.StackSummaries)
      [] outcome.kind = "DescribeStacks" -> Range(outcome.body.Stacks)
      [] outcome.kind = "DescribeStackEvents" -> Range(outcome.body.StackEvents)
      [] outcome.kind = "DescribeStackResource" ->
            {outcome.body.StackResourceDetail}
      [] outcome.kind = "DescribeStackResources" ->
            Range(outcome.body.StackResources)
      [] outcome.kind = "ListStackResources" ->
            Range(outcome.body.StackResourceSummaries)
      [] OTHER -> {}

\* The AWS-side field names of each action's records: the keymap's targets
\* and the derived fields.
AwsFields(action) ==
    CASE action = "ListStacks" ->
            {"CreationTime", "LastUpdatedTime", "StackId", "StackName",
             "StackStatusReason", "TemplateDescription", "StackStatus",
             "DeletionTime"}
      [] action = "DescribeStacks" ->
            {"Capabilities", "CreationTime", "Description", "DisableRollback",
             "LastUpdatedTime", "NotificationARNs", "Parameters", "StackId",
             "StackName", "StackStatusReason", "TimeoutInMinutes",
             "StackStatus", "Outputs"}
      [] action = "DescribeStackEvents" ->
            {"EventId", "LogicalResourceId", "PhysicalResourceId",
             "ResourceProperties", "ResourceStatusReason", "ResourceType",
             "StackId", "StackName", "Timestamp", "ResourceStatus"}
      [] action = "DescribeStackResource" ->
            {"Description", "LastUpdatedTimestamp", "LogicalResourceId",
             "Metadata", "PhysicalResourceId", "ResourceStatusReason",
             "ResourceType", "StackId", "StackName", "ResourceStatus"}
      [] action = "DescribeStackResources" ->
            {"Description", "LogicalResourceId", "PhysicalResourceId",
             "ResourceStatusReason", "ResourceType", "StackId", "StackName",
             "Timestamp", "ResourceStatus"}
      [] action = "ListStackResources" ->
            {"LastUpdatedTimestamp", "LogicalResourceId",
             "PhysicalResourceId", "ResourceStatusReason", "ResourceType",
             "ResourceStatus"}
      [] action \in CREATE_OR_UPDATE_ACTION -> {"StackId"}
      [] OTHER -> {}

\* Record r of the response holds AWS-side fields only, and its stack
\* identifier, when it has one, is an encoded token of an engine identifier.
AllowListed(r) ==
    /\ DOMAIN r \subseteq AwsFields(outcome.kind)
    /\ "StackId" \in DOMAIN r
           => /\ WellFormedArn(r["StackId"])
              /\ from_arn(r["StackId"]).val \in EngineIdentities
    /\ "Outputs" \in DOMAIN r
           => \A o \in Range(r["Outputs"]) :
                  DOMAIN o \subseteq {"Description", "OutputKey", "OutputValue"}

\* C11 as stated: every successful response holds only the AWS-side field
\* names of its action and encoded identifiers, a CreateStack/UpdateStack
\* response built from a result that forms no identifier included.
C11_OnlyAwsFieldsEverywhere ==
    outcome.type = "response"
        => /\ \A r \in ProjectedRecords : AllowListed(r)
           /\ outcome.kind \in CREATE_OR_UPDATE_ACTION
                  => DOMAIN outcome.body \subseteq AwsFields(outcome.kind)

\* C11, amended: the records of the keymap projections (ListStacks,
\* DescribeStacks, DescribeStackEvents, DescribeStackResource,
\* DescribeStackResources, ListStackResources) hold only the AWS-side field
\* names of the action's keymap plus the derived fields, with every stack
\* identifier in encoded-token form.  A CreateStack/UpdateStack result that
\* forms an identifier gives StackId in encoded form and nothing else; a
\* result that forms no identifier is the response as the engine returned
\* it.  A ValidateTemplate result without Error is the response with the
\* engine's own fields, only Parameters being reformatted.
C11_ProjectionsAllowList ==
    outcome.type = "response"
        => LET result == calls[Len(calls)].ret.val
           IN  /\ \A r \in ProjectedRecords : AllowListed(r)
               /\ outcome.kind \in CREATE_OR_UPDATE_ACTION
                      => IF IsIdentityFields(result)
                         THEN outcome.body = [StackId |-> arn(result)]
                         ELSE outcome.body = result
               /\ (outcome.kind = "ValidateTemplate"
                   /\ "Error" \notin DOMAIN result)
                      => DOMAIN outcome.body = DOMAIN result

C11_Witness ==
    /\ outcome.type = "response"
    /\ outcome.kind = "DescribeStacks"
    /\ Len(outcome.body.Stacks) = 2
    /\ Len(outcome.body.Stacks[1]["Outputs"]) = 1
    /\ outcome.body.Stacks[1]["StackId"] = GoodArn

\* The actions whose response is a keymap projection of engine records.
Projections ==
    {"ListStacks", "DescribeStacks", "DescribeStackEvents",
     "DescribeStackResource", "DescribeStackResources", "ListStackResources"}

\* The projected records of a response, in the order of the response.
ProjectedSeq ==
    CASE outcome.kind = "ListStacks" -> outcome.body.StackSummaries
      [] outcome.kind = "DescribeStacks" -> outcome.body.Stacks
      [] outcome.kind = "DescribeStackEvents" -> outcome.body.StackEvents
      [] outcome.kind = "DescribeStackResource" ->
            <<outcome.body.StackResourceDetail>>
      [] outcome.kind = "DescribeStackResources" ->
            outcome.body.StackResources
      [] outcome.kind = "ListStackResources" ->
            outcome.body.StackResourceSummaries
      [] OTHER -> <<>>

\* The engine records the response was projected from: the result of the
\* request's last engine call.
EngineSeq ==
    LET result == calls[Len(calls)].ret.val
    IN  IF outcome.kind = "DescribeStackResource" THEN <<result>> ELSE result

\* The engine's action field, its status field, and the response's status
\* field, per action.
ActionField(action) ==
    CASE action \in {"ListStacks", "DescribeStacks"} -> "STACK_ACTION"
      [] action = "DescribeStackEvents" -> "EVENT_RES_ACTION"
      [] OTHER -> "RES_ACTION"

StatusField(action) ==
    CASE action \in {"ListStacks", "DescribeStacks"} -> "STACK_STATUS"
      [] action = "DescribeStackEvents" -> "EVENT_RES_STATUS"
      [] OTHER -> "RES_STATUS"

JoinedField(action) ==
    IF action \in {"ListStacks", "DescribeStacks"}
    THEN "StackStatus" ELSE "ResourceStatus"

\* joined is action, one underscore, status: its '_'-separated words are the
\* words of action followed by the words of status.
IsJoined(joined, action, status) ==
    /\ Len(joined) = Len(action) + Len(status)
    /\ \A i \in 1..Len(action) : joined[i] = action[i]
    /\ \A i \in 1..Len(status) : joined[Len(action) + i] = status[i]

\* C12: in every projection (stack summaries, stack descriptions, events,
\* resource detail, stack resources, resource summaries) the status field of
\* each projected record is the engine record's action and status, read
\* from its two separate fields, joined by one underscore.
C12_StatusIsActionUnderscoreStatus ==
    (outcome.type = "response" /\ outcome.kind \in Projections)
        => /\ Len(ProjectedSeq) = Len(EngineSeq)
           /\ \A i \in DOMAIN ProjectedSeq :
                  IsJoined(ProjectedSeq[i][JoinedField(outcome.kind)],
                           EngineSeq[i][ActionField(outcome.kind)],
                           EngineSeq[i][StatusField(outcome.kind)])

C12_Witness ==
    /\ outcome.type = "response"
    /\ outcome.kind = "ListStacks"
    /\ Len(outcome.body.StackSummaries) = 2
    /\ calls[Len(calls)].ret.val[1]["STACK_ACTION"] = <<"CREATE">>
    /\ calls[Len(calls)].ret.val[1]["STACK_STATUS"] = <<"COMPLETE">>
    /\ outcome.body.StackSummaries[1]["StackStatus"] = <<"CREATE", "COMPLETE">>
    /\ outcome.body.StackSummaries[2]["StackStatus"]
           = <<"DELETE", "IN", "PROGRESS">>

\* Key sanitization as C13 states it: ':' becomes '.' in the keys of every
\* mapping at any depth, the elements of a sequence are walked, scalars stay.
RECURSIVE Sanitized(_)
Sanitized(value) ==
    CASE value.t = "dict" ->
            Dict([nk \in {ReplaceColon(k) : k \in DOMAIN value.v} |->
                     Sanitized(value.v[CHOOSE k \in DOMAIN value.v :
                                           ReplaceColon(k) = nk])])
      [] value.t = "list" ->
            List([i \in DOMAIN value.v |-> Sanitized(value.v[i])])
      [] OTHER -> value

\* C13: the value of every stack output in a DescribeStacks response is the
\* engine's output value with ':' replaced by '.' in the keys of every
\* nested mapping at any depth, mappings inside sequences included, and
\* with scalar values as they were.
C13_SanitizesMappingsInSequences ==
    (outcome.type = "response" /\ outcome.kind = "DescribeStacks")
        => \A i \in DOMAIN outcome.body.Stacks :
               LET s == calls[Len(calls)].ret.val[i]
                   outputs == outcome.body.Stacks[i]["Outputs"]
               IN  \A j \in DOMAIN outputs :
                       outputs[j]["OutputValue"]
                           = Sanitized(s["STACK_OUTPUTS"][j][<<"OUTPUT_VALUE">>])

\* The engine operations that resolve a name or a physical resource id to a
\* stack identifier, and each action's main engine operation.
ResolveOps == {"identify_stack", "find_physical_resource"}

MainOp(action) ==
    CASE action = "ListStacks" -> "list_stacks"
      [] action = "DescribeStacks" -> "show_stack"
      [] action = "CreateStack" -> "create_stack"
      [] action = "UpdateStack" -> "update_stack"
      [] action = "GetTemplate" -> "get_template"
      [] action = "ValidateTemplate" -> "validate_template"
      [] action = "DeleteStack" -> "delete_stack"
      [] action = "DescribeStackEvents" -> "list_events"
      [] action = "DescribeStackResource" -> "describe_stack_resource"
      [] action = "DescribeStackResources" -> "describe_stack_resources"
      [] action = "ListStackResources" -> "list_stack_resources"
      [] OTHER -> "none"

ByPhysicalResourceId ==
    /\ req.action = "DescribeStackResources"
    /\ calls # <<>>
    /\ calls[1].op = "find_physical_resource"

\* C14 as stated: a request invokes at most one engine operation, except a
\* DeleteStack request and a resources query by physical resource id.
C14_AtMostOneEngineOperation ==
    outcome.type /= "idle"
        => \/ Len(calls) <= 1
           \/ req.action = "DeleteStack"
           \/ ByPhysicalResourceId /\ Len(calls) = 2

\* C14, amended: a request invokes at most two engine operations.  Two are
\* invoked only as a resolve call followed by the action's main operation:
\* identify_stack for a StackName that is no well-formed identifier token
\* (in any action that takes a StackName to resolve, DeleteStack included),
\* or find_physical_resource in a resources query without StackName.  The
\* main operation is invoked after the resolve call has returned and gets
\* its result.  DeleteStack invokes nothing after delete_stack, and
\* ListStacks, CreateStack, ValidateTemplate and EstimateTemplateCost invoke
\* at most one engine operation.
C14_ResolveThenMain ==
    outcome.type /= "idle"
        => /\ Len(calls) <= 2
           /\ Len(calls) = 2
                  => /\ calls[1].op \in ResolveOps
                     /\ calls[1].ret.exc = "none"
                     /\ calls[2].op = MainOp(req.action)
                     /\ calls[2].args["stack_identity"] = calls[1].ret.val
                     /\ calls[1].op = "identify_stack"
                            => /\ Has(req.params, "StackName")
                               /\ ~WellFormedArn(req.params["StackName"])
                     /\ calls[1].op = "find_physical_resource"
                            => /\ req.action = "DescribeStackResources"
                               /\ ~Has(req.params, "StackName")
           /\ Len(calls) = 1
                  => \/ calls[1].op = MainOp(req.action)
                     \/ calls[1].op \in ResolveOps /\ calls[1].ret.exc # "none"
           /\ req.action \in {"ListStacks", "CreateStack", "ValidateTemplate",
                              "EstimateTemplateCost"}
                  => Len(calls) <= 1
           /\ (req.action = "DeleteStack" /\ calls # <<>>)
                  => calls[Len(calls)].op \in {"identify_stack", "delete_stack"}

C14_Witness ==
    /\ outcome.type = "response"
    /\ req.action = "DeleteStack"
    /\ Len(calls) = 2
    /\ calls[1].op = "identify_stack"
    /\ calls[2].op = "delete_stack"
    /\ calls[2].ret = Ok(None)

\* The calls of the request that create or update a stack.
CreateOrUpdateCalls ==
    {i \in DOMAIN calls : calls[i].op \in {"create_stack", "update_stack"}}

OnFailureIs(values) ==
    /\ req.action \in CREATE_OR_UPDATE_ACTION
    /\ Has(req.params, "OnFailure")
    /\ req.params["OnFailure"] \in values

\* C15: whenever create_stack or update_stack is invoked, its arguments
\* hold disable_rollback 'true' for OnFailure=DO_NOTHING and 'false' for
\* OnFailure=ROLLBACK or DELETE, and neither the operation's arguments nor
\* the engine arguments among them hold the OnFailure directive.
C15_OnFailureTranslated ==
    \A i \in CreateOrUpdateCalls :
        LET args == calls[i].args["args"]
        IN  /\ OnFailureIs({S("DO_NOTHING")})
                   => args["disable_rollback"] = S("true")
            /\ OnFailureIs({S("ROLLBACK"), S("DELETE")})
                   => args["disable_rollback"] = S("false")
            /\ "OnFailure" \notin DOMAIN calls[i].args
            /\ DOMAIN args = {"timeout_mins", "disable_rollback"}
            /\ Has(req.params, "OnFailure")
                   => \A k \in DOMAIN args : args[k] # req.params["OnFailure"]

C15_Witness ==
    /\ outcome.type = "response"
    /\ OnFailureIs({S("DO_NOTHING")})
    /\ CreateOrUpdateCalls # {}
    /\ calls[Len(calls)].op = "update_stack"
    /\ calls[Len(calls)].args["args"]["disable_rollback"] = S("true")

====
